---- MODULE Spec2Model ----
(***************************************************************************)
(* Marriage-hall backend: categories and images kept in a document store,  *)
(* image binaries kept at a remote asset host.                             *)
(*                                                                         *)
(* The repository holds two entry points over the same two collections:    *)
(*   - server.js + routes/index.js         (app = "legacy")                *)
(*   - src/index.js + src/app.js + services (app = "service")              *)
(* A process runs one of them; Init chooses which.                         *)
(*                                                                         *)
(* Every request handler is an async function.  Each await of a store or   *)
(* asset-host call is one atomic step; steps of different in-flight        *)
(* requests interleave freely.                                             *)
(***************************************************************************)
EXTENDS Integers, FiniteSets, Sequences, TLC

\* ---------------------------------------------------------------- bounds
MaxCats   == 1      \* category ids ever allocated
MaxImages == 2      \* asset / image ids ever allocated
MaxView   == 2      \* cap on viewCount values
MaxIdLen  == 25     \* longest id string a client sends
MaxPage   == 3      \* highest page number a client asks for
MaxTotal  == 25     \* most records a list query matches
MaxCalls  == 2      \* calls of one gateway method that are followed
MaxStarts == 3      \* initializations one process is seen to begin

Reqs  == {"r1", "r2"}          \* request slots that may be in flight together
\* category names a client may send, as strings of characters
Names == {<<"h", "a", "l", "l">>, <<"g", "a", "r", "d", "e", "n">>}

\* ids a client may send besides the ids of records
NoSuchId == 0          \* a well-formed ObjectId that names no record
BadId    == 0 - 1      \* a string that is not an ObjectId

VARIABLES
  app,      \* "legacy" | "service": the entry point this process runs
  cats,     \* categories collection: id -> [name, slug, imageCount, isActive];
            \*   a document without a slug field has slug <<>>
  imgs,     \* images collection: id -> [category, cloudinaryId, viewCount,
            \*   isActive, updatedAt]; updatedAt is kept relative to createdAt:
            \*   "createdAt" (never written since the insert) or "later"
  remote,   \* asset ids held by the asset host
  nextCat,  \* next fresh category id
  nextImg,  \* next fresh asset / image id
  req,      \* request slot -> the handler's position and locals
  probe     \* one call of a middleware or service function that touches no
            \*   record: its kind, its inputs and, once it has run, its result

vars == <<app, cats, imgs, remote, nextCat, nextImg, req, probe>>

\* no such call is being followed
NoProbe == [kind |-> "none"]

\* ------------------------------------------------------- request records
\* per-item sub-tasks of a handler (one per file, or one per image to clean up)
NoTasks == [i \in {} |-> [st |-> "", id |-> 0]]

Idle == [kind |-> "idle", pc |-> "idle", cat |-> NoSuchId, img |-> NoSuchId,
         name |-> <<>>, nm |-> "", tasks |-> NoTasks, val |-> 0, status |-> 0,
         err |-> ""]

\* A new request takes the first free slot: "r2" is used only while "r1" is
\* busy.  Which slot a request sits in has no meaning for the program.
Free(r) ==
  /\ req[r].kind = "idle"
  /\ r = "r2" => req["r1"].kind # "idle"

\* finished handler: the response has been sent
Respond(q, st, e) == [q EXCEPT !.pc = "done", !.status = st, !.err = e]

CatIdArgs == (1..(nextCat - 1)) \cup {NoSuchId, BadId}
ImgIdArgs == (1..(nextImg - 1)) \cup {NoSuchId, BadId}

\* images whose category reference is c
ImagesOf(c) == {i \in DOMAIN imgs : imgs[i].category = c}

\* a new image document; fields the caller does not give take schema defaults
NewImageUnfiled(c, k) ==
  [category |-> NoSuchId, cloudinaryId |-> k,
   viewCount |-> 0, isActive |-> TRUE, updatedAt |-> "createdAt"]

NewImage(c, k) ==
  [category |-> c, cloudinaryId |-> k,
   viewCount |-> 0, isActive |-> TRUE, updatedAt |-> "createdAt"]

\* a new category document with stored name n and slug s
NewCategory(n, s) == [name |-> n, slug |-> s, imageCount |-> 0, isActive |-> TRUE]

\* the unique index on categories.name: some document other than c holds n
NameTaken(n, c) == \E d \in (DOMAIN cats) \ {c} : cats[d].name = n

\* the unique index on categories.slug (service schema only)
SlugTaken(s, c) == \E d \in (DOMAIN cats) \ {c} : cats[d].slug = s

\* ------------------------------------------------------ string transforms
Whitespace == {" "}
UpperCase  == {"G", "H"}
LowerAlnum == {"a", "d", "e", "g", "h", "l", "n", "r", "0", "1"}

\* String.prototype.toLowerCase, character by character
LowerChar(ch) ==
  CASE ch = "G" -> "g"
    [] ch = "H" -> "h"
    [] OTHER    -> ch

ToLowerCase(s) == [i \in 1..Len(s) |-> LowerChar(s[i])]

\* String.prototype.trim / the schema's trim setter
RECURSIVE TrimStart(_)
TrimStart(s) ==
  IF s # <<>> /\ Head(s) \in Whitespace THEN TrimStart(Tail(s)) ELSE s

RECURSIVE TrimEnd(_)
TrimEnd(s) ==
  IF s # <<>> /\ s[Len(s)] \in Whitespace
  THEN TrimEnd(SubSeq(s, 1, Len(s) - 1)) ELSE s

Trim(s) == TrimEnd(TrimStart(s))

\* .replace(/[^a-z0-9]+/g, '-'): every maximal run of characters outside
\* a-z0-9 becomes one hyphen
RECURSIVE ReplaceRuns(_, _)
ReplaceRuns(s, inRun) ==
  IF s = <<>> THEN <<>>
  ELSE IF Head(s) \in LowerAlnum THEN <<Head(s)>> \o ReplaceRuns(Tail(s), FALSE)
  ELSE IF inRun THEN ReplaceRuns(Tail(s), TRUE)
  ELSE <<"-">> \o ReplaceRuns(Tail(s), TRUE)

\* .replace(/(^-|-$)/g, ''): a hyphen at the start and one at the end go
StripHyphens(s) ==
  LET a == IF s # <<>> /\ Head(s) = "-" THEN Tail(s) ELSE s
  IN  IF a # <<>> /\ a[Len(a)] = "-" THEN SubSeq(a, 1, Len(a) - 1) ELSE a

\* categorySchema.pre('save'): the slug of a name
Slugify(n) == StripHyphens(ReplaceRuns(ToLowerCase(n), FALSE))

\* collection f with document d stored under id k
Put(f, k, d) == [x \in (DOMAIN f) \cup {k} |-> IF x = k THEN d ELSE f[x]]

\* function f without the keys in S
WithoutKept(f, S) == f

Without(f, S) == [k \in (DOMAIN f) \ S |-> f[k]]

\* --------------------------------------------------------- error mapping
\* errorHandler: CastError, duplicate key and ValidationError become an
\* AppError with status 400; anything else keeps err.statusCode || 500.
ErrorStatus(e) ==
  IF e \in {"CastError", "Duplicate", "ValidationError"} THEN 400 ELSE 500

\* --------------------------------------------------------------- Init
\* empty collections, nothing at the asset host, no request in flight
EmptyStore ==
  /\ cats = [c \in {} |-> NewCategory(<<>>, <<>>)]
  /\ imgs = [i \in {} |-> NewImage(NoSuchId, NoSuchId)]
  /\ remote = {}
  /\ nextCat = 1
  /\ nextImg = 1
  /\ req = [r \in Reqs |-> Idle]

Init ==
  /\ app \in {"legacy", "service"}
  /\ EmptyStore
  /\ probe = NoProbe

\* ------------------------------------------------ service: categories
\* new Category(data): the name passes the schema's trim setter; save()
\* runs the pre-save hook, which derives the slug of a modified name
ServiceCategory(n) == NewCategory(Trim(n), Slugify(Trim(n)))

\* the insert is refused (code 11000) when the stored name or the slug is
\* held by another document
ServiceDuplicate(d, c) == NameTaken(d.name, c) \/ SlugTaken(d.slug, c)

\* CategoryService.createCategory: new Category(data).save()
SvcCreateCategory(r, n) ==
  /\ app = "service"
  /\ Free(r)
  /\ LET q == [Idle EXCEPT !.kind = "svcCreateCategory", !.name = n] IN
     IF ServiceDuplicate(ServiceCategory(n), NoSuchId)
     THEN /\ req' = [req EXCEPT ![r] = Respond(q, ErrorStatus("Duplicate"), "Duplicate")]
          /\ UNCHANGED <<cats, nextCat>>
     ELSE /\ nextCat <= MaxCats
          /\ cats' = Put(cats, nextCat, ServiceCategory(n))
          /\ nextCat' = nextCat + 1
          /\ req' = [req EXCEPT ![r] = Respond([q EXCEPT !.cat = nextCat], 201, "")]
  /\ UNCHANGED <<app, imgs, remote, nextImg>>

\* CategoryService.getCategoryById behind validateObjectId('id'):
\* Category.findOne({ _id, isActive: true }); reads only
SvcGetCategory(r, c) ==
  /\ app = "service"
  /\ Free(r)
  /\ LET q == [Idle EXCEPT !.kind = "svcGetCategory", !.cat = c] IN
     req' = [req EXCEPT ![r] =
       IF c = BadId THEN Respond(q, 400, "InvalidId")
       ELSE IF c \notin DOMAIN cats THEN Respond(q, ErrorStatus("NotFound"), "NotFound")
       ELSE IF ~cats[c].isActive THEN Respond(q, ErrorStatus("NotFound"), "NotFound")
       ELSE Respond(q, 200, "")]
  /\ UNCHANGED <<app, cats, imgs, remote, nextCat, nextImg>>

\* --------------------------------------------- service: image upload
\* const category = await Category.findById(categoryId);
\* if (!category) throw new Error('Category not found')
\* findById rejects with a CastError for a string that is no ObjectId.
FindCategoryUnchecked(c) ==
  IF c = BadId THEN "CastError" ELSE "found"

FindCategory(c) ==
  IF c = BadId THEN "CastError"
  ELSE IF c \notin DOMAIN cats THEN "NotFound"
  ELSE "found"

NameOf(c) == IF c \in DOMAIN cats THEN cats[c].name ELSE <<>>

\* ImageService.uploadImage, first await: Category.findById(categoryId).
\* POST /api/images takes the id from the body, where it is any string.
SvcUploadFind(r, c) ==
  /\ app = "service"
  /\ Free(r)
  /\ LET q == [Idle EXCEPT !.kind = "svcUpload", !.cat = c]
         found == FindCategory(c) IN
     req' = [req EXCEPT ![r] =
       IF found # "found" THEN Respond(q, ErrorStatus(found), found)
       ELSE [q EXCEPT !.pc = "upload", !.name = NameOf(c)]]
  /\ UNCHANGED <<app, cats, imgs, remote, nextCat, nextImg>>

\* ImageController.uploadImageWithCategory, first await:
\* CategoryService.createCategory({ name: req.body.categoryName, ... }); a
\* rejection leaves the handler
SvcUploadWithCreate(r, n) ==
  /\ app = "service"
  /\ Free(r)
  /\ LET q == [Idle EXCEPT !.kind = "svcUploadWith", !.name = n] IN
     IF ServiceDuplicate(ServiceCategory(n), NoSuchId)
     THEN /\ req' = [req EXCEPT ![r] = Respond(q, ErrorStatus("Duplicate"), "Duplicate")]
          /\ UNCHANGED <<cats, nextCat>>
     ELSE /\ nextCat <= MaxCats
          /\ cats' = Put(cats, nextCat, ServiceCategory(n))
          /\ nextCat' = nextCat + 1
          /\ req' = [req EXCEPT ![r] = [q EXCEPT !.pc = "find", !.cat = nextCat]]
  /\ UNCHANGED <<app, imgs, remote, nextImg>>

\* then ImageService.uploadImage(buffer, imageData, category._id), whose
\* first await is Category.findById of the id just created
SvcUploadWithFind(r) ==
  /\ req[r].kind = "svcUploadWith" /\ req[r].pc = "find"
  /\ LET found == FindCategory(req[r].cat) IN
     req' = [req EXCEPT ![r] =
       IF found # "found" THEN Respond(@, ErrorStatus(found), found)
       ELSE [@ EXCEPT !.pc = "upload", !.name = NameOf(req[r].cat)]]
  /\ UNCHANGED <<app, cats, imgs, remote, nextCat, nextImg>>

\* the two handlers that run ImageService.uploadImage
SvcUploadKinds == {"svcUpload", "svcUploadWith"}

\* the handler after await cloudinaryConfig.uploadImage(...): with the
\* result it goes on to build and save the document, a rejection is
\* rethrown by the catch block
AfterUploadSwallowed(q, ok, k) ==
  [q EXCEPT !.pc = "hook", !.img = k]

AfterUpload(q, ok, k) ==
  IF ok THEN [q EXCEPT !.pc = "hook", !.img = k]
  ELSE Respond(q, ErrorStatus("Upstream"), "Upstream")

\* second await: cloudinaryConfig.uploadImage
SvcUploadRemote(r, ok) ==
  /\ req[r].kind \in SvcUploadKinds /\ req[r].pc = "upload"
  /\ IF ok
     THEN /\ nextImg <= MaxImages
          /\ remote' = remote \cup {nextImg}
          /\ nextImg' = nextImg + 1
     ELSE UNCHANGED <<remote, nextImg>>
  /\ req' = [req EXCEPT ![r] = AfterUpload(@, ok, nextImg)]
  /\ UNCHANGED <<app, cats, imgs, nextCat>>

\* imageSchema.pre('save'): if (this.isNew || this.isModified('category'))
\* Category.findByIdAndUpdate(this.category, { $inc: { imageCount: 1 } })
PreSaveHookRecount(c, isNew, categoryModified) ==
  IF (isNew \/ categoryModified) /\ c \in DOMAIN cats
  THEN [cats EXCEPT ![c].imageCount = Cardinality(ImagesOf(c)) + 1]
  ELSE cats

PreSaveHookAlways(c, isNew, categoryModified) ==
  IF c \in DOMAIN cats
  THEN [cats EXCEPT ![c].imageCount = @ + 1]
  ELSE cats

PreSaveHook(c, isNew, categoryModified) ==
  IF (isNew \/ categoryModified) /\ c \in DOMAIN cats
  THEN [cats EXCEPT ![c].imageCount = @ + 1]
  ELSE cats

SvcUploadHook(r) ==
  /\ req[r].kind \in SvcUploadKinds /\ req[r].pc = "hook"
  /\ cats' = PreSaveHook(req[r].cat, TRUE, FALSE)
  /\ req' = [req EXCEPT ![r].pc = "insert"]
  /\ UNCHANGED <<app, imgs, remote, nextCat, nextImg>>

\* image.save(): the insert itself, which the store may reject
SvcUploadInsert(r, ok) ==
  /\ req[r].kind \in SvcUploadKinds /\ req[r].pc = "insert"
  /\ IF ok
     THEN /\ imgs' = Put(imgs, req[r].img, NewImage(req[r].cat, req[r].img))
          /\ req' = [req EXCEPT ![r] = Respond(@, 201, "")]
     ELSE /\ req' = [req EXCEPT ![r] = Respond(@, ErrorStatus("StoreError"), "StoreError")]
          /\ UNCHANGED imgs
  /\ UNCHANGED <<app, cats, remote, nextCat, nextImg>>

\* ------------------------------------------ service: get image by id
\* validateObjectId('id') answers 400 before the handler runs when the path
\* parameter is not 24 hex digits.
\* ImageService.getImageById, first await: Image.findById(imageId)
SvcGetFind(r, i) ==
  /\ app = "service"
  /\ Free(r)
  /\ LET q == [Idle EXCEPT !.kind = "svcGet", !.img = i] IN
     IF i = BadId THEN req' = [req EXCEPT ![r] = Respond(q, 400, "InvalidId")]
     ELSE IF i \notin DOMAIN imgs
     THEN req' = [req EXCEPT ![r] = Respond(q, ErrorStatus("NotFound"), "NotFound")]
     ELSE /\ imgs[i].viewCount < MaxView
          /\ req' = [req EXCEPT ![r] = [q EXCEPT !.pc = "save", !.val = imgs[i].viewCount]]
  /\ UNCHANGED <<app, cats, imgs, remote, nextCat, nextImg>>

\* imageSchema.methods.incrementViewCount: this.viewCount += 1 on the loaded
\* document, then save(), which writes the changed path with its new value
\* and, the schema having timestamps, the time of the write.
IncrementViewCount(doc, loaded) ==
  [doc EXCEPT !.viewCount = loaded + 1, !.updatedAt = "later"]

\* second await: image.incrementViewCount().  save() runs the pre-save hook
\* (the document is not new and its category is not modified) and then
\* writes; save() of a document that is gone from the collection rejects.
SvcGetSave(r) ==
  /\ req[r].kind = "svcGet" /\ req[r].pc = "save"
  /\ LET i == req[r].img IN
     IF i \in DOMAIN imgs
     THEN /\ cats' = PreSaveHook(imgs[i].category, FALSE, FALSE)
          /\ imgs' = [imgs EXCEPT ![i] = IncrementViewCount(@, req[r].val)]
          /\ req' = [req EXCEPT ![r] = Respond(@, 200, "")]
     ELSE /\ req' = [req EXCEPT ![r] =
                       Respond(@, ErrorStatus("DocumentNotFound"), "DocumentNotFound")]
          /\ UNCHANGED <<imgs, cats>>
  /\ UNCHANGED <<app, remote, nextCat, nextImg>>

\* ---------------------------------------------- service: update image
\* validate(schemaName) validates a copy with stripUnknown and then sets
\* req.body = { ...req.body, ...value }: every field the client sent is still
\* in the body the handler passes to findByIdAndUpdate.
ImagePatches ==
  [field : {"category"}, value : CatIdArgs]
    \cup [field : {"viewCount"}, value : {0}]

ApplyImagePatch(doc, p) ==
  LET d == [doc EXCEPT !.updatedAt = "later"] IN
  CASE p.field = "category"  -> [d EXCEPT !.category = p.value]
    [] p.field = "viewCount" -> [d EXCEPT !.viewCount = p.value]

\* ImageService.updateImage: Image.findByIdAndUpdate(imageId, updateData,
\* { new: true, runValidators: true }); query middleware runs no save hook.
SvcUpdateImage(r, i, p) ==
  /\ app = "service"
  /\ Free(r)
  /\ LET q == [Idle EXCEPT !.kind = "svcUpdateImage", !.img = i,
                           !.nm = p.field,
                           !.cat = IF p.field = "category" THEN p.value ELSE NoSuchId]
     IN
     IF i = BadId
     THEN /\ req' = [req EXCEPT ![r] = Respond(q, 400, "InvalidId")]
          /\ UNCHANGED imgs
     ELSE IF p.field = "category" /\ p.value = BadId
     THEN /\ req' = [req EXCEPT ![r] = Respond(q, ErrorStatus("CastError"), "CastError")]
          /\ UNCHANGED imgs
     ELSE IF i \notin DOMAIN imgs
     THEN /\ req' = [req EXCEPT ![r] = Respond(q, ErrorStatus("NotFound"), "NotFound")]
          /\ UNCHANGED imgs
     ELSE /\ imgs' = [imgs EXCEPT ![i] = ApplyImagePatch(@, p)]
          /\ req' = [req EXCEPT ![r] = Respond(q, 200, "")]
  /\ UNCHANGED <<app, cats, remote, nextCat, nextImg>>

\* ---------------------------------------------- service: delete image
\* ImageService.deleteImage, first await: Image.findById(imageId)
SvcDeleteImageFind(r, i) ==
  /\ app = "service"
  /\ Free(r)
  /\ LET q == [Idle EXCEPT !.kind = "svcDeleteImage", !.img = i] IN
     req' = [req EXCEPT ![r] =
       IF i = BadId THEN Respond(q, 400, "InvalidId")
       ELSE IF i \notin DOMAIN imgs THEN Respond(q, ErrorStatus("NotFound"), "NotFound")
       ELSE [q EXCEPT !.pc = "remote", !.val = imgs[i].cloudinaryId]]
  /\ UNCHANGED <<app, cats, imgs, remote, nextCat, nextImg>>

\* the one destroy call of a delete-image handler, as a settled task
Attempt(a, ok) == [x \in {a} |-> [st |-> IF ok THEN "ok" ELSE "fail", id |-> a]]

\* the handler after await cloudinaryConfig.deleteImage(image.cloudinaryId):
\* a rejection is rethrown by the catch block and ends the handler
AfterDeleteImageSwallowed(q, ok) ==
  [q EXCEPT !.pc = "dbDelete", !.tasks = Attempt(q.val, ok)]

AfterDeleteImage(q, ok) ==
  IF ok THEN [q EXCEPT !.pc = "dbDelete", !.tasks = Attempt(q.val, ok)]
  ELSE Respond([q EXCEPT !.tasks = Attempt(q.val, ok)], ErrorStatus("Upstream"), "Upstream")

\* second await: cloudinaryConfig.deleteImage(image.cloudinaryId)
SvcDeleteImageRemote(r, ok) ==
  /\ req[r].kind = "svcDeleteImage" /\ req[r].pc = "remote"
  /\ remote' = IF ok THEN remote \ {req[r].val} ELSE remote
  /\ req' = [req EXCEPT ![r] = AfterDeleteImage(@, ok)]
  /\ UNCHANGED <<app, cats, imgs, nextCat, nextImg>>

\* third await: Image.findByIdAndDelete(imageId); no document middleware,
\* so the pre('remove') hook that decrements imageCount never runs
SvcDeleteImageDb(r) ==
  /\ req[r].kind = "svcDeleteImage" /\ req[r].pc = "dbDelete"
  /\ imgs' = Without(imgs, {req[r].img})
  /\ req' = [req EXCEPT ![r] = Respond(@, 200, "")]
  /\ UNCHANGED <<app, cats, remote, nextCat, nextImg>>

\* ------------------------------------------- service: update category
CategoryPatches == [field : {"name"}, value : Names]

\* update values pass the schema's setters; no save hook runs, so the slug
\* stays as it is
ApplyCategoryPatch(doc, p) ==
  CASE p.field = "name" -> [doc EXCEPT !.name = Trim(p.value)]

\* CategoryService.updateCategory: Category.findByIdAndUpdate(categoryId,
\* updateData, { new: true, runValidators: true })
SvcUpdateCategory(r, c, p) ==
  /\ app = "service"
  /\ Free(r)
  /\ LET q == [Idle EXCEPT !.kind = "svcUpdateCategory", !.cat = c, !.nm = p.field] IN
     IF c = BadId
     THEN /\ req' = [req EXCEPT ![r] = Respond(q, 400, "InvalidId")]
          /\ UNCHANGED cats
     ELSE IF c \notin DOMAIN cats
     THEN /\ req' = [req EXCEPT ![r] = Respond(q, ErrorStatus("NotFound"), "NotFound")]
          /\ UNCHANGED cats
     ELSE IF p.field = "name" /\ NameTaken(Trim(p.value), c)
     THEN /\ req' = [req EXCEPT ![r] = Respond(q, ErrorStatus("Duplicate"), "Duplicate")]
          /\ UNCHANGED cats
     ELSE /\ cats' = [cats EXCEPT ![c] = ApplyCategoryPatch(@, p)]
          /\ req' = [req EXCEPT ![r] = Respond(q, 200, "")]
  /\ UNCHANGED <<app, imgs, remote, nextCat, nextImg>>

\* ------------------------------------------- service: delete category
\* CategoryService.deleteCategory, first await: Category.findById(categoryId)
SvcDeleteCategoryFind(r, c) ==
  /\ app = "service"
  /\ Free(r)
  /\ LET q == [Idle EXCEPT !.kind = "svcDeleteCategory", !.cat = c] IN
     req' = [req EXCEPT ![r] =
       IF c = BadId THEN Respond(q, 400, "InvalidId")
       ELSE IF c \notin DOMAIN cats THEN Respond(q, ErrorStatus("NotFound"), "NotFound")
       ELSE [q EXCEPT !.pc = "deleteImages", !.name = cats[c].name]]
  /\ UNCHANGED <<app, cats, imgs, remote, nextCat, nextImg>>

\* second await: Image.deleteMany({ category: categoryId })
SvcDeleteCategoryImages(r) ==
  /\ req[r].kind = "svcDeleteCategory" /\ req[r].pc = "deleteImages"
  /\ imgs' = Without(imgs, ImagesOf(req[r].cat))
  /\ req' = [req EXCEPT ![r] = [@ EXCEPT !.pc = "deleteCategory",
                                         !.val = Cardinality(ImagesOf(req[r].cat))]]
  /\ UNCHANGED <<app, cats, remote, nextCat, nextImg>>

\* third await: Category.findByIdAndDelete(categoryId)
SvcDeleteCategoryDb(r) ==
  /\ req[r].kind = "svcDeleteCategory" /\ req[r].pc = "deleteCategory"
  /\ cats' = Without(cats, {req[r].cat})
  /\ req' = [req EXCEPT ![r] = Respond(@, 200, "")]
  /\ UNCHANGED <<app, imgs, remote, nextCat, nextImg>>

\* =================================================== legacy routes
\* routes/index.js answers errors itself: a duplicate key (code 11000) is
\* 409 where the handler checks for it, every other thrown error is 500.
RouteErrorStatus(e, checksDuplicate) ==
  IF checksDuplicate /\ e = "Duplicate" THEN 409 ELSE 500

Files == {1, 2}       \* the files of one multipart request, of which at
                      \* least one is required and multer admits ten

\* req.files.map(async file => ...): every upload is started at once
StartFiles(nf) == [f \in 1..nf |-> [st |-> "uploading", id |-> NoSuchId]]

\* the handler has nothing left to run once no per-file task is pending
FilesSettled(t) == \A f \in DOMAIN t : t[f].st \in {"saved", "failed"}

\* await Promise.all(uploadPromises): rejects at the first rejection and
\* resolves when every file is saved; the response is sent then, while the
\* other tasks run on
AfterFile(q, t, failedWith) ==
  LET q1 == [q EXCEPT !.tasks = t]
      q2 == IF q.status # 0 THEN q1
            ELSE IF failedWith # ""
            THEN [q1 EXCEPT !.status = RouteErrorStatus(failedWith, q.kind = "rtCreateWithImages"),
                            !.err = failedWith]
            ELSE IF \A f \in DOMAIN t : t[f].st = "saved"
            THEN [q1 EXCEPT !.status = 201]
            ELSE q1
  IN  IF FilesSettled(t) THEN [q2 EXCEPT !.pc = "done"] ELSE q2

\* name.trim().toLowerCase(), as both legacy routes store a name; the
\* legacy schema has no slug
LegacyName(n) == ToLowerCase(Trim(n))

\* POST /categories-with-images: Category.create({ name }), then the files
RtCreateWithImages(r, n, nf) ==
  /\ app = "legacy"
  /\ Free(r)
  /\ LET q == [Idle EXCEPT !.kind = "rtCreateWithImages", !.name = n] IN
     IF nf = 0
     THEN /\ req' = [req EXCEPT ![r] = Respond(q, 400, "NoFiles")]
          /\ UNCHANGED <<cats, nextCat>>
     ELSE IF NameTaken(LegacyName(n), NoSuchId)
     THEN /\ req' = [req EXCEPT ![r] =
                       Respond(q, RouteErrorStatus("Duplicate", TRUE), "Duplicate")]
          /\ UNCHANGED <<cats, nextCat>>
     ELSE /\ nextCat <= MaxCats
          /\ cats' = Put(cats, nextCat, NewCategory(LegacyName(n), <<>>))
          /\ nextCat' = nextCat + 1
          /\ req' = [req EXCEPT ![r] =
                       [q EXCEPT !.pc = "files", !.cat = nextCat, !.tasks = StartFiles(nf)]]
  /\ UNCHANGED <<app, imgs, remote, nextImg>>

\* POST /categories/:categoryId/images: Category.findById, then the files.
\* The path parameter is not validated; findById of a malformed id throws.
RtAddImages(r, c, nf) ==
  /\ app = "legacy"
  /\ Free(r)
  /\ LET q == [Idle EXCEPT !.kind = "rtAddImages", !.cat = c]
         found == FindCategory(c) IN
     req' = [req EXCEPT ![r] =
       IF found = "CastError" THEN Respond(q, RouteErrorStatus(found, FALSE), found)
       ELSE IF found = "NotFound" THEN Respond(q, 404, found)
       ELSE IF nf = 0 THEN Respond(q, 400, "NoFiles")
       ELSE [q EXCEPT !.pc = "files", !.name = NameOf(c), !.tasks = StartFiles(nf)]]
  /\ UNCHANGED <<app, cats, imgs, remote, nextCat, nextImg>>

\* one file's await uploadBuffer(file.buffer, ...)
RtFileUpload(r, f, ok) ==
  /\ req[r].kind \in {"rtCreateWithImages", "rtAddImages"} /\ req[r].pc = "files"
  /\ f \in DOMAIN req[r].tasks
  /\ req[r].tasks[f].st = "uploading"
  /\ IF ok
     THEN /\ nextImg <= MaxImages
          /\ remote' = remote \cup {nextImg}
          /\ nextImg' = nextImg + 1
          /\ req' = [req EXCEPT ![r] =
               AfterFile(@, [@.tasks EXCEPT ![f] = [st |-> "uploaded", id |-> nextImg]], "")]
     ELSE /\ req' = [req EXCEPT ![r] =
               AfterFile(@, [@.tasks EXCEPT ![f].st = "failed"], "Upstream")]
          /\ UNCHANGED <<remote, nextImg>>
  /\ UNCHANGED <<app, cats, imgs, nextCat>>

\* one file's await Image.create({ category, image: result.secure_url })
RtFileSave(r, f, ok) ==
  /\ req[r].kind \in {"rtCreateWithImages", "rtAddImages"} /\ req[r].pc = "files"
  /\ f \in DOMAIN req[r].tasks
  /\ req[r].tasks[f].st = "uploaded"
  /\ IF ok
     THEN /\ imgs' = Put(imgs, req[r].tasks[f].id, NewImage(req[r].cat, req[r].tasks[f].id))
          /\ req' = [req EXCEPT ![r] = AfterFile(@, [@.tasks EXCEPT ![f].st = "saved"], "")]
     ELSE /\ req' = [req EXCEPT ![r] =
               AfterFile(@, [@.tasks EXCEPT ![f].st = "failed"], "StoreError")]
          /\ UNCHANGED imgs
  /\ UNCHANGED <<app, cats, remote, nextCat, nextImg>>

\* PATCH /categories/:categoryId, first await: Category.findById
RtUpdateCategoryFind(r, c, n) ==
  /\ app = "legacy"
  /\ Free(r)
  /\ LET q == [Idle EXCEPT !.kind = "rtUpdateCategory", !.cat = c, !.name = n] IN
     req' = [req EXCEPT ![r] =
       IF c = BadId THEN Respond(q, RouteErrorStatus("CastError", TRUE), "CastError")
       ELSE IF c \notin DOMAIN cats THEN Respond(q, 404, "NotFound")
       ELSE [q EXCEPT !.pc = "update"]]
  /\ UNCHANGED <<app, cats, imgs, remote, nextCat, nextImg>>

\* second await: Category.findByIdAndUpdate(categoryId, { name }, ...); a
\* category deleted in between is answered 200 with a null category
RtUpdateCategoryDb(r) ==
  /\ req[r].kind = "rtUpdateCategory" /\ req[r].pc = "update"
  /\ LET c == req[r].cat IN
     IF c \notin DOMAIN cats
     THEN /\ req' = [req EXCEPT ![r] = Respond(@, 200, "")]
          /\ UNCHANGED cats
     ELSE IF NameTaken(LegacyName(req[r].name), c)
     THEN /\ req' = [req EXCEPT ![r] =
                       Respond(@, RouteErrorStatus("Duplicate", TRUE), "Duplicate")]
          /\ UNCHANGED cats
     ELSE /\ cats' = [cats EXCEPT ![c].name = LegacyName(req[r].name)]
          /\ req' = [req EXCEPT ![r] = Respond(@, 200, "")]
  /\ UNCHANGED <<app, imgs, remote, nextCat, nextImg>>

\* DELETE /images/:imageId, first await:
\* Image.findById(imageId).populate('category', 'name').
\* Building the public id reads image.category.name inside the try block:
\* with no category document behind the reference that throws at once, the
\* catch swallows it and no destroy call is made.
RtDeleteImageFind(r, i) ==
  /\ app = "legacy"
  /\ Free(r)
  /\ LET q == [Idle EXCEPT !.kind = "rtDeleteImage", !.img = i] IN
     req' = [req EXCEPT ![r] =
       IF i = BadId THEN Respond(q, RouteErrorStatus("CastError", FALSE), "CastError")
       ELSE IF i \notin DOMAIN imgs THEN Respond(q, 404, "NotFound")
       ELSE IF imgs[i].category \notin DOMAIN cats
       THEN [q EXCEPT !.pc = "dbDelete", !.val = imgs[i].cloudinaryId]
       ELSE [q EXCEPT !.pc = "remote", !.val = imgs[i].cloudinaryId]]
  /\ UNCHANGED <<app, cats, imgs, remote, nextCat, nextImg>>

\* second await: cloudinary.uploader.destroy(fullPublicId); a rejection is
\* caught and logged, the handler continues
RtDeleteImageRemote(r, ok) ==
  /\ req[r].kind = "rtDeleteImage" /\ req[r].pc = "remote"
  /\ remote' = IF ok THEN remote \ {req[r].val} ELSE remote
  /\ req' = [req EXCEPT ![r] = [@ EXCEPT !.pc = "dbDelete", !.tasks = Attempt(req[r].val, ok)]]
  /\ UNCHANGED <<app, cats, imgs, nextCat, nextImg>>

\* third await: Image.findByIdAndDelete(imageId)
RtDeleteImageDb(r) ==
  /\ req[r].kind = "rtDeleteImage" /\ req[r].pc = "dbDelete"
  /\ imgs' = Without(imgs, {req[r].img})
  /\ req' = [req EXCEPT ![r] = Respond(@, 200, "")]
  /\ UNCHANGED <<app, cats, remote, nextCat, nextImg>>

\* DELETE /categories/:categoryId, first await: Category.findById
RtDeleteCategoryFind(r, c) ==
  /\ app = "legacy"
  /\ Free(r)
  /\ LET q == [Idle EXCEPT !.kind = "rtDeleteCategory", !.cat = c] IN
     req' = [req EXCEPT ![r] =
       IF c = BadId THEN Respond(q, RouteErrorStatus("CastError", FALSE), "CastError")
       ELSE IF c \notin DOMAIN cats THEN Respond(q, 404, "NotFound")
       ELSE [q EXCEPT !.pc = "findImages", !.name = cats[c].name]]
  /\ UNCHANGED <<app, cats, imgs, remote, nextCat, nextImg>>

\* second await: Image.find({ category: categoryId }); then images.map
\* starts one destroy call per image found
RtDeleteCategoryImagesFind(r) ==
  /\ req[r].kind = "rtDeleteCategory" /\ req[r].pc = "findImages"
  /\ LET found == ImagesOf(req[r].cat) IN
     req' = [req EXCEPT ![r] =
       [@ EXCEPT !.pc = "remote", !.val = Cardinality(found),
                 !.tasks = [i \in found |-> [st |-> "pending", id |-> imgs[i].cloudinaryId]]]]
  /\ UNCHANGED <<app, cats, imgs, remote, nextCat, nextImg>>

\* try { await cloudinary.uploader.destroy(...) } catch { log }: the mapped
\* function resolves whether the destroy call resolved or rejected
AfterDestroyRethrows(q, i, ok) ==
  IF ok THEN [q EXCEPT !.tasks[i].st = "ok"]
  ELSE Respond([q EXCEPT !.tasks[i].st = "fail"], RouteErrorStatus("Upstream", FALSE), "Upstream")

AfterDestroy(q, i, ok) ==
  [q EXCEPT !.tasks[i].st = IF ok THEN "ok" ELSE "fail"]

\* try { await cloudinary.api.delete_folder(...) } catch { log }, then 200
AfterFolderDelete(q, ok) ==
  Respond([q EXCEPT !.nm = IF ok THEN "folderDeleted" ELSE "folderKept"], 200, "")

\* one destroy call settles
RtDeleteCategoryRemote(r, i, ok) ==
  /\ req[r].kind = "rtDeleteCategory" /\ req[r].pc = "remote"
  /\ i \in DOMAIN req[r].tasks
  /\ req[r].tasks[i].st = "pending"
  /\ remote' = IF ok THEN remote \ {req[r].tasks[i].id} ELSE remote
  /\ req' = [req EXCEPT ![r] = AfterDestroy(@, i, ok)]
  /\ UNCHANGED <<app, cats, imgs, nextCat, nextImg>>

\* await Promise.allSettled(cloudinaryDeletionPromises)
AllSettledNoWait(t) == TRUE

AllSettled(t) == \A i \in DOMAIN t : t[i].st # "pending"

\* third await, after allSettled: Image.deleteMany({ category: categoryId })
RtDeleteCategoryImages(r) ==
  /\ req[r].kind = "rtDeleteCategory" /\ req[r].pc = "remote"
  /\ AllSettled(req[r].tasks)
  /\ imgs' = Without(imgs, ImagesOf(req[r].cat))
  /\ req' = [req EXCEPT ![r].pc = "deleteCategory"]
  /\ UNCHANGED <<app, cats, remote, nextCat, nextImg>>

\* fourth await: Category.findByIdAndDelete(categoryId)
RtDeleteCategoryDb(r) ==
  /\ req[r].kind = "rtDeleteCategory" /\ req[r].pc = "deleteCategory"
  /\ cats' = Without(cats, {req[r].cat})
  /\ req' = [req EXCEPT ![r].pc = "folder"]
  /\ UNCHANGED <<app, imgs, remote, nextCat, nextImg>>

\* fifth await: cloudinary.api.delete_folder(...); a rejection is caught
RtDeleteCategoryFolder(r, ok) ==
  /\ req[r].kind = "rtDeleteCategory" /\ req[r].pc = "folder"
  /\ req' = [req EXCEPT ![r] = AfterFolderDelete(@, ok)]
  /\ UNCHANGED <<app, cats, imgs, remote, nextCat, nextImg>>

\* --------------------------------------------------- response delivered
Finish(r) ==
  /\ req[r].pc = "done"
  /\ req' = [req EXCEPT ![r] = Idle]
  /\ UNCHANGED <<app, cats, imgs, remote, nextCat, nextImg>>

\* The handler's last step and the end of the handler run in one turn of the
\* event loop: no other handler resumes between a response and Finish.
Handle(r) ==
  \/ \E n \in Names : SvcCreateCategory(r, n)
  \/ \E c \in CatIdArgs : SvcGetCategory(r, c)
  \/ \E n \in Names : SvcUploadWithCreate(r, n)
  \/ SvcUploadWithFind(r)
  \/ \E c \in CatIdArgs : SvcUploadFind(r, c)
  \/ \E ok \in BOOLEAN : SvcUploadRemote(r, ok)
  \/ SvcUploadHook(r)
  \/ \E ok \in BOOLEAN : SvcUploadInsert(r, ok)
  \/ \E i \in ImgIdArgs : SvcGetFind(r, i)
  \/ SvcGetSave(r)
  \/ \E i \in ImgIdArgs, p \in ImagePatches : SvcUpdateImage(r, i, p)
  \/ \E i \in ImgIdArgs : SvcDeleteImageFind(r, i)
  \/ \E ok \in BOOLEAN : SvcDeleteImageRemote(r, ok)
  \/ SvcDeleteImageDb(r)
  \/ \E c \in CatIdArgs, p \in CategoryPatches : SvcUpdateCategory(r, c, p)
  \/ \E c \in CatIdArgs : SvcDeleteCategoryFind(r, c)
  \/ SvcDeleteCategoryImages(r)
  \/ SvcDeleteCategoryDb(r)
  \/ \E n \in Names, nf \in {0} \cup Files : RtCreateWithImages(r, n, nf)
  \/ \E c \in CatIdArgs, nf \in {0} \cup Files : RtAddImages(r, c, nf)
  \/ \E f \in Files, ok \in BOOLEAN : RtFileUpload(r, f, ok)
  \/ \E f \in Files, ok \in BOOLEAN : RtFileSave(r, f, ok)
  \/ \E c \in CatIdArgs, n \in Names : RtUpdateCategoryFind(r, c, n)
  \/ RtUpdateCategoryDb(r)
  \/ \E i \in ImgIdArgs : RtDeleteImageFind(r, i)
  \/ \E ok \in BOOLEAN : RtDeleteImageRemote(r, ok)
  \/ RtDeleteImageDb(r)
  \/ \E c \in CatIdArgs : RtDeleteCategoryFind(r, c)
  \/ RtDeleteCategoryImagesFind(r)
  \/ \E i \in 1..MaxImages, ok \in BOOLEAN : RtDeleteCategoryRemote(r, i, ok)
  \/ RtDeleteCategoryImages(r)
  \/ RtDeleteCategoryDb(r)
  \/ \E ok \in BOOLEAN : RtDeleteCategoryFolder(r, ok)

Step(r) ==
  \/ (\A o \in Reqs : req[o].pc # "done") /\ Handle(r)
  \/ Finish(r)

\* requests handled one at a time
Next == Step("r1") /\ UNCHANGED probe

Spec == Init /\ [][Next]_vars

\* requests in flight together, their awaits interleaved
ConcNext == (\E r \in Reqs : Step(r)) /\ UNCHANGED probe

ConcSpec == Init /\ [][ConcNext]_vars

\* ================================================================ claims
DeleteCategoryKinds == {"svcDeleteCategory", "rtDeleteCategory"}

\* a delete-category request that found its category and has answered
DeletedCategory(r) ==
  /\ req[r].kind \in DeleteCategoryKinds
  /\ req[r].pc = "done"
  /\ req[r].err \notin {"InvalidId", "CastError", "NotFound"}

\* remote-asset delete attempts the request issued
Attempts(r) == DOMAIN req[r].tasks

\* C1: deleting a category that owns N images leaves no image record with
\* that category reference, has issued exactly N remote-asset delete
\* attempts, and leaves the category record absent.
C1_DeleteCategoryCleansUp ==
  \A r \in Reqs :
    DeletedCategory(r) =>
      /\ ImagesOf(req[r].cat) = {}
      /\ req[r].cat \notin DOMAIN cats
      /\ Cardinality(Attempts(r)) = req[r].val

\* C2: whatever remote-asset deletes and the remote folder delete fail, a
\* category deletion that found its category removes the image records and
\* the category record and answers success.
C2_RemoteFailuresDoNotAbort ==
  \A r \in Reqs :
    DeletedCategory(r) =>
      /\ req[r].status = 200
      /\ ImagesOf(req[r].cat) = {}
      /\ req[r].cat \notin DOMAIN cats

\* a category deletion answered although one remote delete and the folder
\* delete failed
C2_Witness ==
  \E r \in Reqs :
    /\ DeletedCategory(r)
    /\ req[r].kind = "rtDeleteCategory"
    /\ req[r].nm = "folderKept"
    /\ \E i \in Attempts(r) : req[r].tasks[i].st = "fail"
    /\ \E i \in Attempts(r) : req[r].tasks[i].st = "ok"

\* C3: once a category deletion has issued its bulk delete of image records
\* (and, after it, the delete of the category record), none of its
\* remote-asset delete attempts is still pending.
C3_LocalDeletesAfterRemoteSettled ==
  \A r \in Reqs :
    (req[r].kind \in DeleteCategoryKinds
       /\ req[r].pc \in {"deleteCategory", "folder", "done"})
      => \A i \in Attempts(r) : req[r].tasks[i].st \in {"ok", "fail"}

\* the bulk delete has run after two attempts settled, one of them failed
C3_Witness ==
  \E r \in Reqs :
    /\ req[r].kind = "rtDeleteCategory" /\ req[r].pc = "deleteCategory"
    /\ Cardinality(Attempts(r)) = 2
    /\ \E i \in Attempts(r) : req[r].tasks[i].st = "fail"
    /\ ImagesOf(req[r].cat) = {}

UploadKinds == {"svcUpload", "rtAddImages", "rtCreateWithImages"}

\* request r's remote upload (of its one file, or of one of its files)
\* fails in this step
UploadFails(r) ==
  \/ /\ req[r].kind \in SvcUploadKinds /\ req[r].pc = "upload"
     /\ req'[r].pc = "done"
  \/ /\ req[r].kind \in UploadKinds /\ req[r].pc = "files"
     /\ \E f \in DOMAIN req[r].tasks :
          req[r].tasks[f].st = "uploading" /\ req'[r].tasks[f].st = "failed"

\* C4: an Image record is written only for an asset the remote host has
\* accepted, a category's imageCount is raised only by a request that holds
\* such an asset, and the step in which a remote upload fails writes no
\* Image record and changes no category.
C4_RecordOnlyAfterUpload ==
  [][ /\ \A i \in (DOMAIN imgs') \ (DOMAIN imgs) : i < nextImg
      /\ \A c \in (DOMAIN cats) \cap (DOMAIN cats') :
           cats'[c].imageCount # cats[c].imageCount =>
             \E r \in Reqs : /\ req[r].kind \in SvcUploadKinds /\ req[r].pc = "hook"
                              /\ req[r].img < nextImg
      /\ \A r \in Reqs : UploadFails(r) => imgs' = imgs /\ cats' = cats
    ]_vars

\* an upload answered with the remote failure while its category exists
\* and is still empty
C4_Witness ==
  \E r \in Reqs :
    /\ req[r].kind = "svcUpload" /\ req[r].pc = "done" /\ req[r].err = "Upstream"
    /\ req[r].cat \in DOMAIN cats
    /\ cats[req[r].cat].imageCount = 0
    /\ ImagesOf(req[r].cat) = {}

\* request r starts an upload into category id c in this step
StartsUpload(r, c) ==
  /\ req[r].kind = "idle"
  /\ req'[r].kind \in {"svcUpload", "rtAddImages"}
  /\ req'[r].cat = c

C6_ImageCountMatches ==
  (app = "service" /\ \A r \in Reqs : req[r].kind = "idle") =>
    \A c \in DOMAIN cats :
      cats[c].imageCount = Cardinality({i \in ImagesOf(c) : imgs[i].isActive})

\* C7: every Image record references a category that is in the store.
C7_NoDanglingCategory ==
  \A i \in DOMAIN imgs : imgs[i].category \in DOMAIN cats

DeleteImageKinds == {"svcDeleteImage", "rtDeleteImage"}

\* a delete-image request has answered after its remote delete failed
RemoteDeleteFailed(r) ==
  /\ req[r].kind \in DeleteImageKinds /\ req[r].pc = "done"
  /\ \E a \in Attempts(r) : req[r].tasks[a].st = "fail"

\* C8 (as claimed): when the remote delete fails, the delete-image request
\* is answered with an error and the Image record is still there.
C8_RemoteFailureKeepsRecord ==
  \A r \in Reqs :
    RemoteDeleteFailed(r) =>
      /\ req[r].status >= 400
      /\ req[r].img \in DOMAIN imgs

\* C8 (amended): the local record is deleted after the remote delete was
\* attempted.  In ImageService.deleteImage a failed remote delete ends
\* the request with an error and the record stays; in the legacy route
\* DELETE /images/:imageId the failure is swallowed, the record is removed
\* and the request is answered 200.
C8_RemoteThenLocal ==
  \A r \in Reqs :
    /\ (req[r].kind = "svcDeleteImage" /\ req[r].pc = "dbDelete") =>
         /\ Attempts(r) = {req[r].val}
         /\ req[r].tasks[req[r].val].st = "ok"
         /\ req[r].img \in DOMAIN imgs
    /\ (req[r].kind = "svcDeleteImage" /\ RemoteDeleteFailed(r)) =>
         /\ req[r].status >= 400
         /\ req[r].err = "Upstream"
         /\ req[r].img \in DOMAIN imgs
    /\ (req[r].kind = "rtDeleteImage" /\ RemoteDeleteFailed(r)) =>
         /\ req[r].status = 200
         /\ req[r].img \notin DOMAIN imgs
    /\ (req[r].kind \in DeleteImageKinds /\ req[r].pc = "done" /\ req[r].status = 200) =>
         req[r].img \notin DOMAIN imgs

\* the service answered an error for a failed remote delete and kept the
\* record
C8_Witness ==
  \E r \in Reqs :
    /\ req[r].kind = "svcDeleteImage" /\ RemoteDeleteFailed(r)
    /\ req[r].img \in DOMAIN imgs
    /\ req[r].val \in remote

\* request r's get-image-by-id succeeds in this step
GetSucceeds(r) ==
  /\ req[r].kind = "svcGet" /\ req[r].pc = "save"
  /\ req'[r].status = 200

C10_ViewCountNeverDecreases ==
  [][ \A i \in (DOMAIN imgs) \cap (DOMAIN imgs') :
        imgs'[i].viewCount >= imgs[i].viewCount
    ]_vars

\* requests that create a category
CreateKinds == {"svcCreateCategory", "svcUploadWith", "rtCreateWithImages"}

\* request r is answered in this step as a create refused for a duplicate
CreateRefused(r) ==
  /\ req[r].kind = "idle"
  /\ req'[r].kind \in CreateKinds
  /\ req'[r].err = "Duplicate"

\* C11: a create whose name already exists is answered 409 and stores no
\* second category.
C11_DuplicateCreateIsConflict ==
  [][ \A r \in Reqs :
        CreateRefused(r) => req'[r].status = 409 /\ cats' = cats
    ]_vars

\* ------------------------------------------- names in other spellings
\* the names of Names and spellings of them that differ in letter case or
\* in surrounding whitespace
CaseNames ==
  Names \cup {<<"H", "a", "l", "l">>, <<" ", "h", "a", "l", "l", " ">>}

CaseCategoryPatches == [field : {"name"}, value : CaseNames]

\* the category handlers of both entry points, fed with CaseNames
CaseHandle(r) ==
  \/ \E n \in CaseNames : SvcCreateCategory(r, n)
  \/ \E c \in CatIdArgs, p \in CaseCategoryPatches : SvcUpdateCategory(r, c, p)
  \/ \E c \in CatIdArgs : SvcDeleteCategoryFind(r, c)
  \/ SvcDeleteCategoryImages(r)
  \/ SvcDeleteCategoryDb(r)
  \/ \E n \in CaseNames, nf \in {0} \cup Files : RtCreateWithImages(r, n, nf)
  \/ \E f \in Files, ok \in BOOLEAN : RtFileUpload(r, f, ok)
  \/ \E f \in Files, ok \in BOOLEAN : RtFileSave(r, f, ok)
  \/ \E c \in CatIdArgs, n \in CaseNames : RtUpdateCategoryFind(r, c, n)
  \/ RtUpdateCategoryDb(r)

CaseNext ==
  /\ \/ req["r1"].pc # "done" /\ CaseHandle("r1")
     \/ Finish("r1")
  /\ UNCHANGED probe

CaseSpec == Init /\ [][CaseNext]_vars

\* a name without its letter case and surrounding whitespace
Canon(n) == ToLowerCase(Trim(n))

\* request r starts in this step as a create of a name that differs only in
\* letter case or surrounding whitespace from the name of a stored category
CreatesRespelled(r) ==
  /\ req[r].kind = "idle"
  /\ req'[r].kind \in CreateKinds
  /\ \E d \in DOMAIN cats :
       /\ Canon(cats[d].name) = Canon(req'[r].name)
       /\ cats[d].name # req'[r].name

\* no two stored categories have names that differ only in letter case or
\* surrounding whitespace
OneCategoryPerName ==
  \A c, d \in DOMAIN cats : Canon(cats[c].name) = Canon(cats[d].name) => c = d

\* C12: a create whose name differs only in letter case or surrounding
\* whitespace from a stored category's name is answered 409, stores
\* nothing, and no two stored categories have names that differ only so.
C12_RespelledCreateIsConflict ==
  [][ /\ \A r \in Reqs :
           CreatesRespelled(r) => req'[r].status = 409 /\ cats' = cats
      /\ OneCategoryPerName'
    ]_vars

\* C13: every category's slug is the slug of its current name.
C13_SlugFollowsName ==
  app = "service" =>
    \A c \in DOMAIN cats : cats[c].slug = Slugify(cats[c].name)

\* requests that read, update or delete the record an id names
ByIdKinds ==
  {"svcGetCategory", "svcGet", "svcUpdateImage", "svcDeleteImage",
   "svcUpdateCategory", "svcDeleteCategory",
   "rtUpdateCategory", "rtDeleteImage", "rtDeleteCategory"}

\* request r is answered in this step: its id names no record
FindsNothing(r) ==
  /\ req[r].kind = "idle"
  /\ req'[r].kind \in ByIdKinds
  /\ req'[r].err = "NotFound"

\* C14: a read, update or delete of a well-formed id that names no record
\* is answered 404 and changes nothing in the store.
C14_MissingIdIs404 ==
  [][ \A r \in Reqs :
        FindsNothing(r) =>
          /\ req'[r].status = 404
          /\ cats' = cats /\ imgs' = imgs /\ remote' = remote
    ]_vars

\* request r starts in this step as a get of an image id that was given
\* out and names no record now
GetsAbsentImage(r) ==
  /\ req[r].kind = "idle"
  /\ req'[r].kind = "svcGet"
  /\ req'[r].img \in (1..(nextImg - 1)) \ DOMAIN imgs

\* C15: the pre-save hook of an upload raises its category's imageCount by
\* one, so that the first upload ever stored leaves imageCount 1; a
\* delete-image request that reaches its local delete leaves no record under
\* the id; no record appears under an id but by the upload that was given
\* the id; and a get by id of an id without record is rejected as not found
\* and changes no image, category or remote asset.
C15_DeletedImageIsNotFound ==
  [][ app = "service" =>
        \A r \in Reqs :
          /\ (req[r].kind \in SvcUploadKinds /\ req[r].pc = "hook"
                /\ req[r].cat \in DOMAIN cats) =>
               cats'[req[r].cat].imageCount = cats[req[r].cat].imageCount + 1
          /\ (req[r].kind \in SvcUploadKinds /\ req[r].pc = "insert"
                /\ req'[r].status = 201 /\ nextImg = 2) =>
               /\ req[r].img \in DOMAIN imgs'
               /\ cats'[req[r].cat].imageCount = 1
          /\ (req[r].kind = "svcDeleteImage" /\ req[r].pc = "dbDelete"
                /\ req'[r].pc = "done") =>
               req[r].img \notin DOMAIN imgs'
          /\ \A i \in (DOMAIN imgs') \ (DOMAIN imgs) :
               \E o \in Reqs : req[o].pc = "insert" /\ req[o].img = i
                                 /\ req'[o].pc = "done"
          /\ GetsAbsentImage(r) =>
               /\ req'[r].pc = "done"
               /\ req'[r].err = "NotFound"
               /\ req'[r].status >= 400
               /\ imgs' = imgs /\ cats' = cats /\ remote' = remote
    ]_vars

\* after create, one upload and the delete of that image, a get of its id
\* has been rejected; the category still exists
C15_Witness ==
  \E r \in Reqs :
    /\ req[r].kind = "svcGet" /\ req[r].pc = "done" /\ req[r].err = "NotFound"
    /\ req[r].img = 1 /\ nextImg = 2
    /\ imgs = << >> /\ remote = {}
    /\ DOMAIN cats # {}

\* ------------------------------------------------ the id validator
IdLength == 24

HexDigits ==
  {"0", "1", "2", "3", "4", "5", "6", "7", "8", "9",
   "a", "b", "c", "d", "e", "f", "A", "B", "C", "D", "E", "F"}

\* /^[0-9a-fA-F]{24}$/.test(objectId): n characters of the class, then the
\* end of the string
RECURSIVE MatchesHexUnanchored(_, _)
MatchesHexUnanchored(s, n) ==
  IF n = 0 THEN TRUE
  ELSE s # <<>> /\ Head(s) \in HexDigits /\ MatchesHexUnanchored(Tail(s), n - 1)

RECURSIVE MatchesHex(_, _)
MatchesHex(s, n) ==
  IF n = 0 THEN s = <<>>
  ELSE s # <<>> /\ Head(s) \in HexDigits /\ MatchesHex(Tail(s), n - 1)

\* validateObjectId(paramName): 400 unless the parameter is there and
\* matches; otherwise next()
ValidateObjectId(id) ==
  IF id = <<>> \/ ~MatchesHex(id, IdLength) THEN "400" ELSE "next"

\* id strings a client may send
Rep(ch, n) == [i \in 1..n |-> ch]

IdChars == {"0", "9", "a", "f", "A", "F", "g", "G", "-", " "}

IdInputs ==
  {Rep(ch, n) : ch \in IdChars, n \in {0, 1, IdLength - 1, IdLength} \cup {MaxIdLen}}
    \cup {[Rep("a", n) EXCEPT ![k] = ch] :
            n \in {IdLength, MaxIdLen}, k \in {1, 12, IdLength}, ch \in {"g", "-", "F", "0"}}

IdInit ==
  /\ app = "service"
  /\ EmptyStore
  /\ probe \in [kind : {"validateObjectId"}, id : IdInputs, out : {"pending"}]

\* the middleware runs on the request's id parameter
IdValidate ==
  /\ probe.out = "pending"
  /\ probe' = [probe EXCEPT !.out = ValidateObjectId(probe.id)]
  /\ UNCHANGED <<app, cats, imgs, remote, nextCat, nextImg, req>>

\* next(): the route's handler runs; the store being empty, the id names
\* no record
IdHandle ==
  /\ probe.out = "next"
  /\ probe' = [probe EXCEPT !.out = "handled"]
  /\ \/ SvcGetCategory("r1", NoSuchId)
     \/ SvcGetFind("r1", NoSuchId)
     \/ SvcDeleteImageFind("r1", NoSuchId)
     \/ SvcDeleteCategoryFind("r1", NoSuchId)

IdFinish == Finish("r1") /\ UNCHANGED probe

IdNext == IdValidate \/ IdHandle \/ IdFinish

IdSpec == IdInit /\ [][IdNext]_vars

\* the id is exactly 24 hexadecimal characters
Exactly24Hex(s) == Len(s) = 24 /\ \A i \in 1..Len(s) : s[i] \in HexDigits

DefaultPage  == 1
DefaultLimit == 20
MaxLimit     == 100

Min(a, b) == IF a < b THEN a ELSE b
Max(a, b) == IF a > b THEN a ELSE b

\* a query parameter: << >> when the request has none, <<n>> when it reads n
Param(S) == {<< >>} \cup {<<n>> : n \in S}

\* parseInt(req.query.x) || d: NaN and 0 are falsy
ParseIntOr(raw, d) ==
  IF raw = << >> THEN d ELSE IF raw[1] = 0 THEN d ELSE raw[1]

\* Math.ceil(total / limit)
Floor(a, b) == a \div b

Ceil(a, b) == (a \div b) + (IF a % b = 0 THEN 0 ELSE 1)

\* .skip(k) and .limit(l) of a query over the matching records in sort order
Skip(seq, k) == SubSeq(seq, k + 1, Len(seq))

Limit(seq, l) == SubSeq(seq, 1, Min(l, Len(seq)))

\* ImageService.getAllImages({page, limit}) over the matching records
GetAllImages(page, limit, matching) ==
  LET skip       == (page - 1) * limit
      images     == Limit(Skip(matching, skip), limit)
      total      == Len(matching)
      totalPages == Ceil(total, limit)
  IN  [images |-> images, page |-> page, limit |-> limit, total |-> total,
       totalPages |-> totalPages,
       hasNext |-> page < totalPages, hasPrev |-> page > 1]

PageInit ==
  /\ app = "service"
  /\ EmptyStore
  /\ probe \in [kind  : {"getAllImages"},
                page  : Param(0..MaxPage),
                limit : Param((0..3) \cup {10, MaxLimit, MaxLimit + 1}),
                total : 0..MaxTotal,
                out   : {<< >>}]

\* GET /api/images: ImageController.getAllImages reads the query, calls the
\* service and answers with its result
ListImages ==
  /\ probe.out = << >>
  /\ LET page  == ParseIntOr(probe.page, DefaultPage)
         limit == ParseIntOr(probe.limit, DefaultLimit)
     IN  probe' = [probe EXCEPT
                     !.out = <<GetAllImages(page, limit, [i \in 1..probe.total |-> i])>>]
  /\ UNCHANGED <<app, cats, imgs, remote, nextCat, nextImg, req>>

PageNext == ListImages

PageSpec == PageInit /\ [][PageNext]_vars

\* a list request with page p >= 1 and limit l >= 1 has been answered
Listed(p, l) ==
  /\ probe.out # << >>
  /\ probe.page = <<p>> /\ probe.limit = <<l>>

\* C17: for page p >= 1 and limit l >= 1 over T matching records the page
\* holds min(l, max(0, T - (p-1)*l)) records, totalPages is the least n with
\* n*l >= T, hasNext = (p < totalPages) and hasPrev = (p > 1).
C17_PaginationArithmetic ==
  \A p \in 1..(MaxPage + 1), l \in 1..(MaxLimit + 1) :
    Listed(p, l) =>
      LET res == probe.out[1]
          T   == probe.total
      IN  /\ Len(res.images) = Min(l, Max(0, T - (p - 1) * l))
          /\ res.totalPages * l >= T
          /\ (res.totalPages - 1) * l < T
          /\ res.hasNext = (p < res.totalPages)
          /\ res.hasPrev = (p > 1)

\* page 2 of 25 records, 10 to the page: 10 records, 3 pages, both flags
C17_Witness ==
  /\ Listed(2, 10)
  /\ probe.total = 25
  /\ Len(probe.out[1].images) = 10
  /\ probe.out[1].totalPages = 3
  /\ probe.out[1].hasNext /\ probe.out[1].hasPrev

\* C18: the limit of a list request that reaches the store query is at
\* most 100.
C18_LimitAtMost100 ==
  probe.out # << >> => probe.out[1].limit <= 100

\* ------------------------------------------------------ error responses
\* errors a handler may throw, by kind
ErrorKinds ==
  {"CastError", "Duplicate", "ValidationError",
   "NotFound", "Upstream", "StoreError", "DocumentNotFound"}

\* values of process.env.NODE_ENV; "unset" when the variable is not there
Envs == {"development", "production", "test", "unset"}

\* errorHandler replaces these by an AppError, whose isOperational is true;
\* every other error of ErrorKinds is a plain Error
Operational(e) == e \in {"CastError", "Duplicate", "ValidationError"}

\* the response: status, whose message it carries ("own": the error's,
\* "generic": a fixed text), whether the stack is in it
SendErrorDev(e) ==
  [status |-> ErrorStatus(e), message |-> "own", stack |-> TRUE]

SendErrorProd(e) ==
  IF Operational(e)
  THEN [status |-> ErrorStatus(e), message |-> "own", stack |-> FALSE]
  ELSE [status |-> 500, message |-> "generic", stack |-> FALSE]

ErrorHandler(e, env) ==
  IF env = "development" THEN SendErrorDev(e) ELSE SendErrorProd(e)

\* catch (error) of a legacy route: error: error.message || '<fallback>'
RouteCatch(e, checksDuplicate) ==
  IF checksDuplicate /\ e = "Duplicate"
  THEN [status |-> RouteErrorStatus(e, checksDuplicate), message |-> "generic",
        stack |-> FALSE]
  ELSE [status |-> RouteErrorStatus(e, checksDuplicate), message |-> "own",
        stack |-> FALSE]

ErrInit ==
  /\ app \in {"legacy", "service"}
  /\ EmptyStore
  /\ probe \in [kind : {"error"}, err : ErrorKinds, env : Envs,
                checksDuplicate : BOOLEAN, out : {<< >>}]

\* service entry point: the error reaches errorHandler through asyncHandler
SvcError ==
  /\ app = "service"
  /\ probe.out = << >>
  /\ probe' = [probe EXCEPT !.out = <<ErrorHandler(probe.err, probe.env)>>]
  /\ UNCHANGED <<app, cats, imgs, remote, nextCat, nextImg, req>>

\* errors thrown inside the try block of a legacy route (a missing record
\* is answered there without a throw)
RouteThrown == {"CastError", "Duplicate", "Upstream", "StoreError"}

\* legacy entry point: the error reaches the route's own catch block
RtError ==
  /\ app = "legacy"
  /\ probe.out = << >>
  /\ probe.err \in RouteThrown
  /\ probe' = [probe EXCEPT !.out = <<RouteCatch(probe.err, probe.checksDuplicate)>>]
  /\ UNCHANGED <<app, cats, imgs, remote, nextCat, nextImg, req>>

ErrNext == SvcError \/ RtError

ErrSpec == ErrInit /\ [][ErrNext]_vars

\* C19: outside development mode an error that is not a recognised
\* operational error is answered 500 with the fixed generic message, without
\* the error's message and without its stack.
C19_NoDetailOutsideDevelopment ==
  (probe.out # << >> /\ probe.env # "development" /\ ~Operational(probe.err)) =>
    /\ probe.out[1].status = 500
    /\ probe.out[1].message = "generic"
    /\ ~probe.out[1].stack

\* request r starts in this step as an upload-with-new-category
StartsUploadWith(r) ==
  /\ req[r].kind = "idle"
  /\ req'[r].kind = "svcUploadWith"

\* C20: upload-with-new-category creates the category before anything is
\* uploaded; when the create is refused as a duplicate the request ends
\* with no remote upload and no Image record; the remote upload is issued
\* for the category the request created; on success the stored image
\* references that category.
C20_CategoryBeforeUpload ==
  [][ \A r \in Reqs :
        /\ (StartsUploadWith(r) /\ req'[r].err = "Duplicate") =>
             /\ req'[r].pc = "done"
             /\ cats' = cats /\ imgs' = imgs
             /\ remote' = remote /\ nextImg' = nextImg
        /\ (StartsUploadWith(r) /\ req'[r].err # "Duplicate") =>
             /\ (DOMAIN cats') \ (DOMAIN cats) = {req'[r].cat}
             /\ imgs' = imgs /\ remote' = remote
        /\ (req[r].kind = "svcUploadWith" /\ req'[r].kind = "svcUploadWith") =>
             req'[r].cat = req[r].cat
        /\ (req[r].kind = "svcUploadWith" /\ remote' # remote) =>
             req[r].cat \in DOMAIN cats
        /\ (req[r].kind = "svcUploadWith" /\ req[r].pc = "insert"
              /\ req'[r].status = 201) =>
             /\ req[r].img \in DOMAIN imgs'
             /\ imgs'[req[r].img].category = req[r].cat
             /\ req[r].cat \in DOMAIN cats'
    ]_vars

\* an upload-with-new-category was refused as a duplicate: the store holds
\* the category of that name and nothing was uploaded
C20_Witness ==
  \E r \in Reqs :
    /\ req[r].kind = "svcUploadWith" /\ req[r].pc = "done"
    /\ req[r].err = "Duplicate"
    /\ \E c \in DOMAIN cats : cats[c].name = Trim(req[r].name)
    /\ remote = {} /\ nextImg = 1

\* ------------------------------------------- store calls that reject
\* an awaited store call of a delete-category handler rejects: the service
\* catch block rethrows to the error handler, the route's catch answers 500
StoreRejectsSwallowed(q, legacy) == Respond(q, 200, "")

StoreRejects(q, legacy) ==
  Respond(q, IF legacy THEN RouteErrorStatus("StoreError", FALSE)
             ELSE ErrorStatus("StoreError"), "StoreError")

\* Image.deleteMany({ category: categoryId }) rejects
SvcDeleteCategoryImagesFails(r) ==
  /\ req[r].kind = "svcDeleteCategory" /\ req[r].pc = "deleteImages"
  /\ req' = [req EXCEPT ![r] = StoreRejects(@, FALSE)]
  /\ UNCHANGED <<app, cats, imgs, remote, nextCat, nextImg>>

\* Category.findByIdAndDelete(categoryId) rejects
SvcDeleteCategoryDbFails(r) ==
  /\ req[r].kind = "svcDeleteCategory" /\ req[r].pc = "deleteCategory"
  /\ req' = [req EXCEPT ![r] = StoreRejects(@, FALSE)]
  /\ UNCHANGED <<app, cats, imgs, remote, nextCat, nextImg>>

\* the route's Image.deleteMany rejects after allSettled
RtDeleteCategoryImagesFails(r) ==
  /\ req[r].kind = "rtDeleteCategory" /\ req[r].pc = "remote"
  /\ AllSettled(req[r].tasks)
  /\ req' = [req EXCEPT ![r] = StoreRejects(@, TRUE)]
  /\ UNCHANGED <<app, cats, imgs, remote, nextCat, nextImg>>

\* the route's Category.findByIdAndDelete rejects
RtDeleteCategoryDbFails(r) ==
  /\ req[r].kind = "rtDeleteCategory" /\ req[r].pc = "deleteCategory"
  /\ req' = [req EXCEPT ![r] = StoreRejects(@, TRUE)]
  /\ UNCHANGED <<app, cats, imgs, remote, nextCat, nextImg>>

StoreFault(r) ==
  \/ SvcDeleteCategoryImagesFails(r)
  \/ SvcDeleteCategoryDbFails(r)
  \/ RtDeleteCategoryImagesFails(r)
  \/ RtDeleteCategoryDbFails(r)

\* the handlers that fill and delete categories
FaultHandle(r) ==
  \/ \E n \in Names : SvcCreateCategory(r, n)
  \/ \E c \in CatIdArgs : SvcUploadFind(r, c)
  \/ \E ok \in BOOLEAN : SvcUploadRemote(r, ok)
  \/ SvcUploadHook(r)
  \/ \E ok \in BOOLEAN : SvcUploadInsert(r, ok)
  \/ \E c \in CatIdArgs : SvcDeleteCategoryFind(r, c)
  \/ SvcDeleteCategoryImages(r)
  \/ SvcDeleteCategoryDb(r)
  \/ \E n \in Names, nf \in {0} \cup Files : RtCreateWithImages(r, n, nf)
  \/ \E f \in Files, ok \in BOOLEAN : RtFileUpload(r, f, ok)
  \/ \E f \in Files, ok \in BOOLEAN : RtFileSave(r, f, ok)
  \/ \E c \in CatIdArgs : RtDeleteCategoryFind(r, c)
  \/ RtDeleteCategoryImagesFind(r)
  \/ \E i \in 1..MaxImages, ok \in BOOLEAN : RtDeleteCategoryRemote(r, i, ok)
  \/ RtDeleteCategoryImages(r)
  \/ RtDeleteCategoryDb(r)
  \/ \E ok \in BOOLEAN : RtDeleteCategoryFolder(r, ok)
  \/ StoreFault(r)

\* requests handled one at a time, the store free to reject a delete
FaultNext ==
  /\ \/ (req["r1"].pc # "done") /\ FaultHandle("r1")
     \/ Finish("r1")
  /\ UNCHANGED probe

FaultSpec == Init /\ [][FaultNext]_vars

\* C21: a category deletion that has answered success has left no category
\* record under its id; one that answered after the image records of the
\* category were removed either removed the category record too or answered
\* with an error.
C21_NoSilentDeleteFailure ==
  \A r \in Reqs :
    (req[r].kind \in DeleteCategoryKinds /\ req[r].pc = "done") =>
      /\ req[r].status = 200 => req[r].cat \notin DOMAIN cats
      /\ req[r].cat \in DOMAIN cats => req[r].status >= 400

\* the delete of the category record was rejected after the image records
\* had gone: the category is still there and the caller was told
C21_Witness ==
  \E r \in Reqs :
    /\ req[r].kind \in DeleteCategoryKinds /\ req[r].pc = "done"
    /\ req[r].err = "StoreError"
    /\ req[r].cat \in DOMAIN cats
    /\ req[r].val >= 1
    /\ ImagesOf(req[r].cat) = {}

\* ------------------------------- uploads and deletes, asset host obliging
\* uploads, image deletes and category deletes in which every destroy call
\* and every folder delete made at the asset host resolves
OwnedHandle(r) ==
  \/ \E n \in Names : SvcCreateCategory(r, n)
  \/ \E n \in Names : SvcUploadWithCreate(r, n)
  \/ SvcUploadWithFind(r)
  \/ \E c \in CatIdArgs : SvcUploadFind(r, c)
  \/ \E ok \in BOOLEAN : SvcUploadRemote(r, ok)
  \/ SvcUploadHook(r)
  \/ \E ok \in BOOLEAN : SvcUploadInsert(r, ok)
  \/ \E i \in ImgIdArgs : SvcDeleteImageFind(r, i)
  \/ SvcDeleteImageRemote(r, TRUE)
  \/ SvcDeleteImageDb(r)
  \/ \E c \in CatIdArgs : SvcDeleteCategoryFind(r, c)
  \/ SvcDeleteCategoryImages(r)
  \/ SvcDeleteCategoryDb(r)
  \/ \E n \in Names, nf \in {0} \cup Files : RtCreateWithImages(r, n, nf)
  \/ \E c \in CatIdArgs, nf \in {0} \cup Files : RtAddImages(r, c, nf)
  \/ \E f \in Files, ok \in BOOLEAN : RtFileUpload(r, f, ok)
  \/ \E f \in Files, ok \in BOOLEAN : RtFileSave(r, f, ok)
  \/ \E i \in ImgIdArgs : RtDeleteImageFind(r, i)
  \/ RtDeleteImageRemote(r, TRUE)
  \/ RtDeleteImageDb(r)
  \/ \E c \in CatIdArgs : RtDeleteCategoryFind(r, c)
  \/ RtDeleteCategoryImagesFind(r)
  \/ \E i \in 1..MaxImages : RtDeleteCategoryRemote(r, i, TRUE)
  \/ RtDeleteCategoryImages(r)
  \/ RtDeleteCategoryDb(r)
  \/ RtDeleteCategoryFolder(r, TRUE)

OwnedNext ==
  /\ \/ (req["r1"].pc # "done") /\ OwnedHandle("r1")
     \/ Finish("r1")
  /\ UNCHANGED probe

OwnedSpec == Init /\ [][OwnedNext]_vars

\* asset ids some Image record refers to
Referenced == {imgs[i].cloudinaryId : i \in DOMAIN imgs}

\* C22: with no remote delete failing and no request in flight, every asset
\* held by the asset host is referenced by an existing Image record.
C22_NoUnreferencedAsset ==
  (\A r \in Reqs : req[r].kind = "idle") => remote \subseteq Referenced

\* --------------------------------- uploads in flight together, all succeeding
UploadsHandle(r) ==
  \/ \E n \in Names : SvcCreateCategory(r, n)
  \/ \E c \in CatIdArgs : SvcUploadFind(r, c)
  \/ SvcUploadRemote(r, TRUE)
  \/ SvcUploadHook(r)
  \/ SvcUploadInsert(r, TRUE)

UploadsNext ==
  /\ \E r \in Reqs :
       \/ (\A o \in Reqs : req[o].pc # "done") /\ UploadsHandle(r)
       \/ Finish(r)
  /\ UNCHANGED probe

UploadsSpec == Init /\ [][UploadsNext]_vars

\* uploads to category c whose save() has run its hook and not yet inserted
Inserting(c) ==
  {r \in Reqs : req[r].kind = "svcUpload" /\ req[r].pc = "insert" /\ req[r].cat = c}

\* C23: however the store calls of concurrent successful uploads to one
\* category interleave, each raises imageCount by exactly one: the count is
\* the number of stored images plus the uploads between hook and insert, so
\* k finished uploads leave it k higher.
C23_ConcurrentUploadsCount ==
  \A c \in DOMAIN cats :
    cats[c].imageCount = Cardinality(ImagesOf(c)) + Cardinality(Inserting(c))

\* two uploads to one category are both between hook and insert
C23_Witness ==
  \E c \in DOMAIN cats :
    /\ Inserting(c) = Reqs
    /\ cats[c].imageCount = 2

\* ----------------------------------------- reads by id in flight together
ViewsHandle(r) ==
  \/ \E n \in Names : SvcCreateCategory(r, n)
  \/ \E c \in CatIdArgs : SvcUploadFind(r, c)
  \/ \E ok \in BOOLEAN : SvcUploadRemote(r, ok)
  \/ SvcUploadHook(r)
  \/ \E ok \in BOOLEAN : SvcUploadInsert(r, ok)
  \/ \E i \in ImgIdArgs : SvcGetFind(r, i)
  \/ SvcGetSave(r)

ViewsNext ==
  /\ \E r \in Reqs :
       \/ (\A o \in Reqs : req[o].pc # "done") /\ ViewsHandle(r)
       \/ Finish(r)
  /\ UNCHANGED probe

ViewsSpec == Init /\ [][ViewsNext]_vars

\* request r, a get by id, writes its view in this step and answers 200
CountsView(r) ==
  /\ req[r].kind = "svcGet" /\ req[r].pc = "save"
  /\ req'[r].pc = "done" /\ req'[r].status = 200

\* C24: with get-by-id requests for one image in flight together, every one
\* that answers raises the stored viewCount by one over what was stored
\* just before its write, so k of them leave it k higher.
C24_NoViewLost ==
  [][ \A r \in Reqs :
        CountsView(r) =>
          imgs'[req[r].img].viewCount = imgs[req[r].img].viewCount + 1
    ]_vars

\* request r is an upload whose image.save() was rejected after its asset
\* was stored, and that asset is the first the process ever uploaded: no
\* Image record has existed, every imageCount was 0 when the upload began
FirstUploadNotSaved(r) ==
  /\ req[r].kind \in SvcUploadKinds /\ req[r].pc = "done"
  /\ req[r].err = "StoreError"
  /\ req[r].img = 1 /\ nextImg = 2
  /\ req[r].cat \in DOMAIN cats

\* C25: an upload whose Image record could not be stored leaves the
\* imageCount of its category as it was before the upload.
C25_FailedSaveLeavesCount ==
  \A r \in Reqs :
    FirstUploadNotSaved(r) => cats[req[r].cat].imageCount = 0

\* ------------------------------------------- request bodies and validate
\* A body is a function from the field names the client sent to values; a
\* value carries its JavaScript type, its content written as a string.
Str(s)  == [type |-> "string", v |-> s]
Bool(s) == [type |-> "boolean", v |-> s]

\* a === b
StrictEquals(a, b) == a.type = b.type /\ a.v = b.v

\* { ...a, ...b }
Spread(a, b) ==
  [f \in (DOMAIN a) \cup (DOMAIN b) |-> IF f \in DOMAIN b THEN b[f] ELSE a[f]]

NoFields == [f \in {} |-> Str("")]

\* the routes of the service API that take a body, and the schema each
\* hands to validate(); POST /images/with-category mounts no validate()
BodyRoutes ==
  {"POST /categories", "PATCH /categories/:id", "POST /images",
   "POST /images/with-category", "PATCH /images/:id"}

RouteSchema(route) ==
  CASE route = "POST /categories"           -> "createCategory"
    [] route = "PATCH /categories/:id"      -> "updateCategory"
    [] route = "POST /images"               -> "createImage"
    [] route = "PATCH /images/:id"          -> "updateImage"
    [] route = "POST /images/with-category" -> "none"

\* the keys of each Joi.object
SchemaFields(s) ==
  CASE s \in {"createCategory", "updateCategory"} -> {"name", "description"}
    [] s \in {"createImage", "updateImage"} ->
         {"title", "description", "category", "tags", "isFeatured"}

\* the keys marked .required()
RequiredFields(s) ==
  CASE s = "createCategory" -> {"name"}
    [] s = "createImage"    -> {"title", "category"}
    [] OTHER                -> {}

\* Joi.boolean() with conversion on: a boolean, or the string "true" or
\* "false", which becomes the boolean
ValidField(f, x) ==
  IF f = "isFeatured"
  THEN x.type = "boolean" \/ x.v \in {"true", "false"}
  ELSE x.type = "string"

ConvertField(f, x) == IF f = "isFeatured" THEN Bool(x.v) ELSE x

\* schema.validate(data, { abortEarly: false, stripUnknown: true }).error
SchemaError(s, data) ==
  \/ \E f \in RequiredFields(s) : f \notin DOMAIN data
  \/ \E f \in (DOMAIN data) \cap SchemaFields(s) : ~ValidField(f, data[f])

\* schema.validate(...).value: the declared keys, converted
SchemaValue(s, data) ==
  [f \in (DOMAIN data) \cap SchemaFields(s) |-> ConvertField(f, data[f])]

\* validate(schemaName): 400 on an error, else
\* req.body = { ...req.body, ...value } and next()
Validate(s, body) ==
  IF SchemaError(s, body) THEN [status |-> 400, body |-> body]
  ELSE [status |-> 0, body |-> Spread(body, SchemaValue(s, body))]

\* the middleware a route mounts before its handler
RouteMiddleware(route, body) ==
  IF RouteSchema(route) = "none" THEN [status |-> 0, body |-> body]
  ELSE Validate(RouteSchema(route), body)

\* isFeatured: req.body.isFeatured === 'true', in both upload handlers
ImageData(body) ==
  [isFeatured |-> ("isFeatured" \in DOMAIN body
                     /\ StrictEquals(body["isFeatured"], Str("true")))]

\* what the handler hands to the model: the create and PATCH handlers pass
\* req.body itself, the upload handlers build imageData
HandlerData(route, body) ==
  IF route \in {"POST /images", "POST /images/with-category"}
  THEN [fields |-> {"title", "description", "tags", "isFeatured", "originalFileName"},
        isFeatured |-> ImageData(body).isFeatured]
  ELSE [fields |-> DOMAIN body, isFeatured |-> FALSE]

\* fields a client may send: multipart and urlencoded bodies hold strings
PlainFields ==
  {"name", "title", "category", "imageCount", "isActive", "slug",
   "viewCount", "cloudinaryId", "imageUrl"}

FeaturedSent ==
  {NoFields} \cup {[f \in {"isFeatured"} |-> x] : x \in {Str("true"), Str("false"), Str("yes")}}

Bodies ==
  {Spread([f \in S |-> Str("x")], feat) : S \in SUBSET PlainFields, feat \in FeaturedSent}

BodyInit ==
  /\ app = "service"
  /\ EmptyStore
  /\ probe \in [kind : {"body"}, route : BodyRoutes, sent : Bodies,
                pc : {"middleware"}, body : {NoFields}, status : {0},
                data : {[fields |-> {}, isFeatured |-> FALSE]}]

RunMiddleware ==
  /\ probe.kind = "body" /\ probe.pc = "middleware"
  /\ LET out == RouteMiddleware(probe.route, probe.sent) IN
     probe' = [probe EXCEPT !.status = out.status, !.body = out.body,
                            !.pc = IF out.status = 0 THEN "handler" ELSE "done"]
  /\ UNCHANGED <<app, cats, imgs, remote, nextCat, nextImg, req>>

RunHandler ==
  /\ probe.kind = "body" /\ probe.pc = "handler"
  /\ probe' = [probe EXCEPT !.data = HandlerData(probe.route, probe.body),
                            !.pc = "done"]
  /\ UNCHANGED <<app, cats, imgs, remote, nextCat, nextImg, req>>

BodyNext == RunMiddleware \/ RunHandler

BodySpec == BodyInit /\ [][BodyNext]_vars

\* C26: the body a handler behind validate() sees holds only fields
\* declared in the route's schema.
C26_OnlyDeclaredFields ==
  (probe.kind = "body" /\ probe.pc = "handler"
     /\ RouteSchema(probe.route) # "none")
    => DOMAIN probe.body \subseteq SchemaFields(RouteSchema(probe.route))

\* the client set the isFeatured field to true
SentFeatured(b) == "isFeatured" \in DOMAIN b /\ b["isFeatured"].v = "true"

\* C27: an image uploaded through POST /images is persisted with
\* isFeatured true exactly when the client sent the field as true.
C27_FeaturedFlagKept ==
  (probe.kind = "body" /\ probe.pc = "done" /\ probe.status = 0
     /\ probe.route = "POST /images")
    => probe.data.isFeatured = SentFeatured(probe.sent)

\* the same through POST /images/with-category, where the flag is kept
WithCategoryFeaturedKept ==
  (probe.kind = "body" /\ probe.pc = "done" /\ probe.status = 0
     /\ probe.route = "POST /images/with-category")
    => probe.data.isFeatured = SentFeatured(probe.sent)

\* a POST /categories-with-images that created its category, answered with
\* an error for one of its files, and has no upload left running
BatchFailed(r) ==
  /\ req[r].kind = "rtCreateWithImages" /\ req[r].pc = "done"
  /\ req[r].err \in {"Upstream", "StoreError"}

\* C28: a POST /categories-with-images answered with an error leaves in the
\* store neither the category it created nor any Image record of it.
C28_BatchAllOrNothing ==
  \A r \in Reqs :
    BatchFailed(r) =>
      /\ req[r].cat \notin DOMAIN cats
      /\ ImagesOf(req[r].cat) = {}

\* ------------------------------------------------- asset-host gateway
\* CloudinaryConfig: the three credentials read from the environment
Credentials == {"CLOUDINARY_CLOUD_NAME", "CLOUDINARY_API_KEY", "CLOUDINARY_API_SECRET"}

\* constructor(): this.isConfigured = false; nothing applied to the SDK
NewGateway == [isConfigured |-> FALSE, applied |-> FALSE]

\* configure(): throws when a credential is missing, else cloudinary.config
\* and this.isConfigured = true; the catch block rethrows
ConfigureUnchecked(g, env) ==
  [g |-> [g EXCEPT !.isConfigured = TRUE], threw |-> env # Credentials]

Configure(g, env) ==
  IF env # Credentials THEN [g |-> g, threw |-> TRUE]
  ELSE [g |-> [isConfigured |-> TRUE, applied |-> TRUE], threw |-> FALSE]

\* uploadImage / deleteImage / getImageUrl: if (!this.isConfigured) throw
\* before the SDK is touched
GatewayMethods == {"uploadImage", "deleteImage", "getImageUrl"}

Guarded(g) == IF g.isConfigured THEN "called" ELSE "threw"

GatewayInit ==
  /\ app = "service"
  /\ EmptyStore
  /\ probe \in [kind : {"gateway"}, env : SUBSET Credentials, g : {NewGateway},
                calls : {[m \in GatewayMethods |-> 0]},
                last : {"none"}, outcome : {"none"}]

\* App.start / the serverless handler call configure()
GatewayConfigure ==
  /\ probe.kind = "gateway"
  /\ LET out == Configure(probe.g, probe.env) IN
     probe' = [probe EXCEPT !.g = out.g, !.last = "configure",
                            !.outcome = IF out.threw THEN "threw" ELSE "returned"]
  /\ UNCHANGED <<app, cats, imgs, remote, nextCat, nextImg, req>>

\* a service calls one of the three methods; a call that reaches the SDK
\* resolves or rejects
GatewayCall(m, ok) ==
  /\ probe.kind = "gateway"
  /\ IF Guarded(probe.g) = "threw"
     THEN probe' = [probe EXCEPT !.last = m, !.outcome = "threw"]
     ELSE /\ probe.calls[m] < MaxCalls
          /\ probe' = [probe EXCEPT !.calls[m] = @ + 1, !.last = m,
                         !.outcome = IF ok \/ m = "getImageUrl" THEN "returned" ELSE "rejected"]
  /\ UNCHANGED <<app, cats, imgs, remote, nextCat, nextImg, req>>

GatewayNext ==
  \/ GatewayConfigure
  \/ \E m \in GatewayMethods, ok \in BOOLEAN : GatewayCall(m, ok)

GatewaySpec == GatewayInit /\ [][GatewayNext]_vars

\* C30: the SDK is reached only by a gateway whose configure() has
\* completed; isConfigured is true only with all three credentials present
\* and applied, stays false when configure() throws, and never goes back
\* to false.
C30_ConfiguredBeforeRemoteCall ==
  [][ probe.kind = "gateway" =>
        /\ (\E m \in GatewayMethods : probe'.calls[m] > probe.calls[m]) =>
             probe.g.isConfigured /\ probe.g.applied
        /\ probe'.g.isConfigured =>
             probe'.env = Credentials /\ probe'.g.applied
        /\ (probe'.last = "configure" /\ probe'.outcome = "threw"
              /\ ~probe.g.isConfigured) => ~probe'.g.isConfigured
        /\ probe.g.isConfigured => probe'.g.isConfigured
    ]_vars

\* a call reached the SDK after configure(); and elsewhere configure()
\* threw and the call after it was refused
C30_Witness ==
  /\ probe.kind = "gateway"
  /\ probe.g.isConfigured
  /\ probe.calls["uploadImage"] = 1
  /\ probe.last = "uploadImage"

C30_RefusedWitness ==
  /\ probe.kind = "gateway"
  /\ probe.env # Credentials
  /\ ~probe.g.isConfigured
  /\ probe.last = "deleteImage" /\ probe.outcome = "threw"

\* ---------------------------------------------- serverless entry point
\* api/index.js: module state is cachedApp and the gateway singleton; each
\* invocation of the exported handler is one request.  database.connect()
\* is awaited, so other invocations run while it is pending.
ColdIdle == [pc |-> "idle", status |-> 0]

ColdInit ==
  /\ app = "service"
  /\ EmptyStore
  /\ probe \in [kind : {"cold"}, env : {Credentials, {}}, g : {NewGateway},
                cachedApp : {FALSE}, connects : {0}, configures : {0},
                rq : {[r \in Reqs |-> ColdIdle]}]

\* if (!cachedApp) { new App(); await database.connect(); ... }
\* return cachedApp(req, res)
ColdEnter(r) ==
  /\ probe.kind = "cold"
  /\ probe.rq[r].pc = "idle"
  /\ IF probe.cachedApp
     THEN probe' = [probe EXCEPT !.rq[r] = [pc |-> "done", status |-> 200]]
     ELSE /\ probe.connects < MaxStarts
          /\ probe' = [probe EXCEPT !.connects = @ + 1, !.rq[r].pc = "connecting"]
  /\ UNCHANGED <<app, cats, imgs, remote, nextCat, nextImg, req>>

\* database.connect() settles.  Resolved: cloudinaryConfig.configure(),
\* cachedApp = appInstance.getApp(), then the request is dispatched;
\* a rejection or a throw of configure() reaches the catch block: 500
ColdConnected(r, ok) ==
  /\ probe.kind = "cold"
  /\ probe.rq[r].pc = "connecting"
  /\ IF ~ok
     THEN probe' = [probe EXCEPT !.rq[r] = [pc |-> "done", status |-> 500]]
     ELSE LET out == Configure(probe.g, probe.env) IN
          probe' = [probe EXCEPT
                      !.configures = @ + 1,
                      !.g = out.g,
                      !.cachedApp = IF out.threw THEN @ ELSE TRUE,
                      !.rq[r] = [pc |-> "done",
                                 status |-> IF out.threw THEN 500 ELSE 200]]
  /\ UNCHANGED <<app, cats, imgs, remote, nextCat, nextImg, req>>

\* the response is out; the slot takes the next request
ColdFinish(r) ==
  /\ probe.kind = "cold"
  /\ probe.rq[r].pc = "done"
  /\ probe' = [probe EXCEPT !.rq[r] = ColdIdle]
  /\ UNCHANGED <<app, cats, imgs, remote, nextCat, nextImg, req>>

ColdNext ==
  \E r \in Reqs :
    \/ ColdEnter(r)
    \/ \E ok \in BOOLEAN : ColdConnected(r, ok)
    \/ ColdFinish(r)

ColdSpec == ColdInit /\ [][ColdNext]_vars

\* C29: in one process the asset host is configured at most once, and
\* after a configuration has succeeded no further connection is begun.
C29_InitializedOnce ==
  [][ probe.kind = "cold" =>
        /\ probe.g.isConfigured => probe'.configures = probe.configures
        /\ probe.cachedApp => probe'.connects = probe.connects
    ]_vars

\* a request is dispatched to the app only once the app is cached and the
\* gateway configured; a failed initialization is answered 500 and leaves
\* the next request to initialize again
ColdDispatchAfterInit ==
  probe.kind = "cold" =>
    /\ \A r \in Reqs :
         probe.rq[r].status = 200 => probe.cachedApp /\ probe.g.isConfigured
    /\ probe.cachedApp => probe.g.isConfigured

====
